---- MODULE Spec2Model ----
(***************************************************************************)
(* True-Pros-Back: the realtime listener (realtimeService.js) and the      *)
(* Telegram bot workflow (telegramBot.js) over the callback_requests       *)
(* store (callbackService.js, routes/callbacks.js).                        *)
(*                                                                         *)
(* Four specifications share the module:                                   *)
(*   Spec          the bot over a reliable network: change events (each    *)
(*                 delivered once or more), button presses, direct         *)
(*                 messages, reminder timers, process restart;             *)
(*   SpecFaulty    the bot over a network whose calls may fail;            *)
(*   SpecRest      the bot beside the REST routes PATCH and DELETE;        *)
(*   SpecListener  the reconnecting change listener, split at the awaits   *)
(*                 of initializeRealtime and disconnectRealtime.           *)
(* A bot handler is one action; the send of notifyNewCallback is split at  *)
(* its await, so that other handlers run while it is in flight. Time is    *)
(* counted in minutes and advances by quarters of an hour.                 *)
(***************************************************************************)
EXTENDS Integers, Sequences, FiniteSets, TLC

\* ---------------------------------------------------------------- bounds

MaxRecords == 1
MaxOperators == 1
MaxDeliver == 2
MaxMsgs == 2
MaxTimers == 2
MaxTime == 1
MaxRestarts == 1
MaxFailures == 1
MaxRest == 1

Records == 1..MaxRecords
Operators == 1..MaxOperators

\* Time is counted in minutes: 45 * 60 * 1000 ms.
ReminderLead == 45

\* The step of the clock, and the year instant 0 lies in.
Quarter == ReminderLead \div 3
EpochYear == 2030

None == 0

\* ------------------------------------------------------------- variables

VARIABLES
  store,            \* callback_requests table: record id -> row
  pendingInserts,   \* INSERT events the changefeed still delivers, per record
  chan,             \* workers group: message id -> message
  sending,          \* notifyNewCallback calls awaiting sendToWorkersGroup
  groupMessages,    \* Map: callback id -> group message id
  userStates,       \* Map: operator chat id -> conversation state
  scheduledJobs,    \* Map: <<callback id, operator>> -> reminder entry
  timers,           \* armed setTimeout handles of scheduleReminder
  nextTimer,        \* next timeout id
  dmButtons,        \* inline buttons shown in operators' direct chats
  now,              \* clock: minutes since 1 January of EpochYear
  restarts,         \* process restarts so far
  restCalls,        \* PATCH and DELETE requests so far
  faults,           \* network calls that have failed so far
  trace,            \* I/O events of the handler that ran last, in order
  hist,             \* history: for each record, the "new request" sends made and
                    \* whether a message identity was ever recorded
  realtimeSubscription,  \* "null", or the state of the channel it refers to
  reconnectAttempts, isReconnecting, isDatabaseError,
  leaked,           \* states of live channels no variable refers to
  rtTimers,         \* pending setTimeout callbacks of scheduleReconnection
  rtOps,            \* calls suspended at an await of realtimeService.js
  exited,           \* process.exit was called
  rtHist,           \* history of the listener
  call,             \* a call of a function on its own: arguments and result
  isSupabaseReady, isRealtimeReady, isTelegramReady,  \* flags of health.js
  startup,          \* background block of startServer: position and results
  probe,            \* the response to the last GET /health/ready
  tested            \* the response to the last POST /api/realtime/test

botVars == <<store, pendingInserts, chan, sending, groupMessages,
             userStates, scheduledJobs, timers, nextTimer, dmButtons, now,
             restarts, restCalls, faults, trace, hist>>
rtVars == <<realtimeSubscription, reconnectAttempts, isReconnecting,
            isDatabaseError, leaked, rtTimers, rtOps, exited, rtHist>>
healthVars == <<isSupabaseReady, isRealtimeReady, isTelegramReady, startup,
                probe, tested>>
vars == <<botVars, rtVars, call, healthVars>>

\* ----------------------------------------------------------------- store

Statuses == {"pending", "in_progress", "contacted", "completed", "cancelled"}

AbsentRow == [status |-> "absent", assigned_user_id |-> None,
              address |-> "", detailed_service_type |-> "",
              problem_description |-> "", completed_by |-> None,
              completed_at |-> FALSE]

\* createCallbackRequest: the row a POST /api/callbacks inserts.
createCallbackRequest == [AbsentRow EXCEPT !.status = "pending"]

\* getCallbackById: TRUE when the row exists (PGRST116 gives null).
Found(st, r) == st[r].status \in Statuses

\* updateCallbackStatus: merges the given fields into the row; completed_at
\* is stamped when the update sets status completed.
updateCallbackStatus(st, r, upd) ==
  LET row == st[r]
      merged == [f \in DOMAIN row |-> IF f \in DOMAIN upd THEN upd[f] ELSE row[f]]
      stamped == IF "status" \in DOMAIN upd /\ upd.status = "completed"
                   THEN [merged EXCEPT !.completed_at = TRUE]
                   ELSE merged
  IN [st EXCEPT ![r] = stamped]

\* ------------------------------------------------- the handlers' world

\* The state a handler reads and writes, threaded through its statements.
World == [store |-> store, chan |-> chan, sending |-> sending,
          groupMessages |-> groupMessages, userStates |-> userStates,
          scheduledJobs |-> scheduledJobs, timers |-> timers,
          nextTimer |-> nextTimer, dmButtons |-> dmButtons,
          trace |-> trace, hist |-> hist]

\* An I/O event of a handler: kind, record, message or operator, text.
Ev(k, r, m, t) == [k |-> k, r |-> r, m |-> m, t |-> t]

Log(w, ev) == [w EXCEPT !.trace = Append(@, ev)]

\* What may fail in one run of a handler: each flag is one network call
\* (TRUE: the call succeeds). At most MaxFailures calls fail in a run of
\* the system.
Calls == {"read1", "dm", "write", "ack", "read2", "edit"}

Failures == {[c \in Calls |-> c \notin bad] :
               bad \in {b \in SUBSET Calls : Cardinality(b) <= MaxFailures - faults}}

Failed(f) == Cardinality({c \in Calls : ~f[c]})

Oks == IF faults < MaxFailures THEN BOOLEAN ELSE {TRUE}

NoSession == [action |-> "none", callbackId |-> None, address |-> "",
              detailedServiceType |-> "", problemDescription |-> "",
              infoMessageId |-> FALSE]

NoJob == [timeoutId |-> None, appointmentDate |-> 0, callbackId |-> None]

NoDate == -1

\* ------------------------------------------------------- telegramBot.js

\* sendDirectMessage: a failed send is caught and gives null; the buttons
\* of a delivered message stay in the operator's chat.
sendDirectMessage(w, op, text, buttons, ok) ==
  IF ok
    THEN [Log(w, Ev("dm", None, op, text)) EXCEPT !.dmButtons = @ \cup buttons]
    ELSE Log(w, Ev("dmFail", None, op, text))

\* startInfoCollection
startInfoCollection(w, op, r, f) ==
  IF ~f.read1
    THEN sendDirectMessage(Log(w, Ev("readFail", r, None, "")), op,
                           "infoError", {}, f.dm)
    ELSE LET w1 == Log(w, Ev("read", r, None, "")) IN
      IF ~Found(w1.store, r)
        THEN sendDirectMessage(w1, op, "notFound", {}, f.dm)
        ELSE LET w2 == sendDirectMessage(w1, op, "infoPrompt", {}, f.dm) IN
          [w2 EXCEPT !.userStates[op] =
              [NoSession EXCEPT !.action = "collecting_address",
                                !.callbackId = r,
                                !.infoMessageId = f.dm]]

\* sendSchedulingRequest
sendSchedulingRequest(w, op, r, f) ==
  IF ~f.read1
    THEN sendDirectMessage(Log(w, Ev("readFail", r, None, "")), op,
                           "scheduleError", {}, f.dm)
    ELSE LET w1 == Log(w, Ev("read", r, None, "")) IN
      IF ~Found(w1.store, r)
        THEN sendDirectMessage(w1, op, "notFound", {}, f.dm)
        ELSE IF ~f.write
          THEN sendDirectMessage(Log(w1, Ev("writeFail", r, None, "")), op,
                                 "scheduleError", {}, f.dm)
          ELSE LET w2 == [Log(w1, Ev("write", r, None, "in_progress")) EXCEPT
                            !.store = updateCallbackStatus(@, r,
                                          [status |-> "in_progress"]),
                            !.userStates[op] =
                               [NoSession EXCEPT !.action = "scheduling",
                                                 !.callbackId = r]]
               IN sendDirectMessage(w2, op, "schedulePrompt", {}, f.dm)

\* The message identity updateGroupMessage edits: groupMessages.get.
EditTarget(w, r) == w.groupMessages[r]

\* updateGroupMessage without its try block: a failed edit is thrown to
\* handleCallbackQuery, whose catch block answers with the error text.
updateGroupMessageUncaught(w, r, statusText, newKeyboard, f) ==
  LET m == EditTarget(w, r) IN
  IF m = None
    THEN Log(w, Ev("noGroupMessage", r, None, statusText))
    ELSE IF ~f.read2
      THEN Log(w, Ev("readFail", r, None, ""))
      ELSE LET w1 == Log(w, Ev("read", r, None, "")) IN
        IF ~Found(w1.store, r)
          THEN w1
          ELSE IF f.edit
            THEN [Log(w1, Ev("edit", r, m, statusText)) EXCEPT
                    !.chan[m] = [@ EXCEPT !.keyboard = newKeyboard]]
            ELSE Log(Log(w1, Ev("editFail", r, m, statusText)),
                     Ev("ack", r, None, "error"))

\* updateGroupMessage: edits the record's group message in place; a cache
\* miss returns, every error is caught and logged.
updateGroupMessage(w, r, statusText, newKeyboard, f) ==
  LET m == EditTarget(w, r) IN
  IF m = None
    THEN Log(w, Ev("noGroupMessage", r, None, statusText))
    ELSE IF ~f.read2
      THEN Log(w, Ev("readFail", r, None, ""))
      ELSE LET w1 == Log(w, Ev("read", r, None, "")) IN
        IF ~Found(w1.store, r)
          THEN w1
          ELSE IF f.edit
            THEN [Log(w1, Ev("edit", r, m, statusText)) EXCEPT
                    !.chan[m] = [@ EXCEPT !.keyboard = newKeyboard]]
            ELSE Log(w1, Ev("editFail", r, m, statusText))

\* answerCallbackQuery inside the try block: when it throws, the catch
\* block answers once more with the error text.
answerCallbackQuery(w, op, r, text, ok) ==
  IF ok THEN Log(w, Ev("ack", r, op, text))
        ELSE Log(Log(w, Ev("ackFail", r, op, text)), Ev("ackFail", r, op, "error"))

\* The switch of handleCallbackQuery: the fields the verb writes.
statusUpdate(verb, op) ==
  CASE verb = "contacted" -> [status |-> "contacted", assigned_user_id |-> op]
    [] verb = "cancel"    -> [status |-> "cancelled"]
    [] verb = "complete"  -> [status |-> "completed", completed_by |-> op]
    [] OTHER              -> <<>>

responseText(verb) ==
  CASE verb = "contacted"        -> "contacted"
    [] verb = "cancel"           -> "cancelled"
    [] verb = "schedule"         -> "scheduleSent"
    [] verb = "schedule_pending" -> "scheduleStarted"
    [] verb = "complete"         -> "completed"
    [] OTHER                     -> "unknown"

\* handleCallbackQuery: a button press `verb`_`r` by operator op.
handleCallbackQuery(w, op, verb, r, f) ==
  LET w0 == [w EXCEPT !.trace = <<Ev("cq", r, op, verb)>>]
      w1 == CASE verb = "contacted" -> startInfoCollection(w0, op, r, f)
              [] verb \in {"schedule", "schedule_pending"} ->
                   sendSchedulingRequest(w0, op, r, f)
              [] OTHER -> w0
      upd == statusUpdate(verb, op)
  IN IF DOMAIN upd # {} /\ ~(f.write /\ Found(w1.store, r))
       THEN Log(Log(w1, Ev("writeFail", r, None, upd.status)),
                Ev(IF f.ack THEN "ack" ELSE "ackFail", r, op, "error"))
       ELSE LET w2 == IF DOMAIN upd # {}
                        THEN [Log(w1, Ev("write", r, None, upd.status)) EXCEPT
                                !.store = updateCallbackStatus(@, r, upd)]
                        ELSE w1
                w3 == answerCallbackQuery(w2, op, r, responseText(verb), f.ack)
            IN IF f.ack
                 THEN updateGroupMessage(w3, r, responseText(verb), {}, f)
                 ELSE w3

\* The calendar of the Date constructor. Instants are minutes since
\* midnight of 1 January of EpochYear, local time.
IsLeap(y) == (y % 4 = 0 /\ y % 100 # 0) \/ y % 400 = 0

DaysInMonth(y, m) ==
  CASE m = 2 -> IF IsLeap(y) THEN 29 ELSE 28
    [] m \in {4, 6, 9, 11} -> 30
    [] OTHER -> 31

\* Days from 1 January of year 1 to 1 January of year y.
DaysBeforeYear(y) ==
  365 * (y - 1) + ((y - 1) \div 4) - ((y - 1) \div 100) + ((y - 1) \div 400)

RECURSIVE DaysBeforeMonth(_, _)
DaysBeforeMonth(y, m) ==
  IF m <= 1 THEN 0 ELSE DaysInMonth(y, m - 1) + DaysBeforeMonth(y, m - 1)

\* new Date(year, month - 1, day, hours, minutes): fields out of range
\* carry over into the next unit, a year below 100 counts from 1900.
DateOf(fields) ==
  LET y0 == IF fields.year <= 99 THEN 1900 + fields.year ELSE fields.year
      mi == fields.month - 1
      y == y0 + (mi \div 12)
      m == (mi % 12) + 1
      days == DaysBeforeYear(y) - DaysBeforeYear(EpochYear)
              + DaysBeforeMonth(y, m) + (fields.day - 1)
  IN (days * 24 + fields.hours) * 60 + fields.minutes

\* The captured groups of a text that does not match the pattern.
NoFields == [day |-> 0, month |-> 0, year |-> 0, hours |-> 0, minutes |-> 0]

\* parseDateTime taking a text that does not match for a date.
parseDateTimeAnyText(text, fields, t) ==
  IF text # "date" THEN t + ReminderLead + Quarter
  ELSE LET date == DateOf(fields) IN
       IF date <= t THEN NoDate ELSE date

\* parseDateTime: text is "date" for a trimmed text that matches
\* DD.MM.YYYY HH:MM, with the captured groups `fields`; the Date built from
\* them is returned when it is after now (isNaN never holds for numeric
\* fields).
parseDateTime(text, fields, t) ==
  IF text # "date" THEN NoDate
  ELSE LET date == DateOf(fields) IN
       IF date <= t THEN NoDate ELSE date

\* Milliseconds in a minute, the unit of the clock.
MsPerMinute == 60000

\* The longest delay of a Node.js timer: 2^31 - 1 milliseconds.
TIMEOUT_MAX == 2147483647

\* setTimeout(callback, delay) called at time t, the delay given in whole
\* minutes: the instant the callback runs. Node.js sets a delay above
\* TIMEOUT_MAX milliseconds to 1 millisecond.
setTimeout(delay, t) ==
  IF delay > TIMEOUT_MAX \div MsPerMinute THEN t ELSE t + delay

\* scheduleReminder: arms a timer ReminderLead before the appointment and
\* stores its entry under the key callbackId_userId.
scheduleReminder(w, op, r, appointmentDate, t) ==
  LET reminderTime == appointmentDate - ReminderLead IN
  IF reminderTime <= t
    THEN w
    ELSE LET timeout == reminderTime - t IN
         [w EXCEPT
            !.timers = @ \cup {[timeoutId |-> w.nextTimer, callbackId |-> r,
                                userId |-> op,
                                fireAt |-> setTimeout(timeout, t),
                                appointmentDate |-> appointmentDate]},
            !.scheduledJobs[<<r, op>>] =
                [timeoutId |-> w.nextTimer,
                 appointmentDate |-> appointmentDate, callbackId |-> r],
            !.nextTimer = @ + 1]

\* String.prototype.trim on the texts of the model.
Trim(text) == IF text = " a " THEN "a" ELSE text

\* editInfoMessage: a failed edit falls back to a new direct message.
editInfoMessage(w, op, text, f) ==
  IF f.edit THEN Log(w, Ev("dmEdit", None, op, text))
            ELSE sendDirectMessage(Log(w, Ev("dmEditFail", None, op, text)),
                                   op, text, {}, f.dm)

\* sendDetailedRequest
sendDetailedRequest(w, op, r, f) ==
  IF ~f.read1
    THEN sendDirectMessage(Log(w, Ev("readFail", r, None, "")), op,
                           "detailError", {}, f.dm)
    ELSE LET w1 == Log(w, Ev("read", r, None, "")) IN
      IF ~Found(w1.store, r)
        THEN sendDirectMessage(w1, op, "notFound", {}, f.dm)
        ELSE sendDirectMessage(w1, op, "detailed", {<<op, "schedule", r>>}, f.dm)

\* saveCollectedInfo writing the service type and the problem only.
saveCollectedInfoNoAddress(st, r, collectedInfo) ==
  updateCallbackStatus(st, r,
    [detailed_service_type |-> collectedInfo.detailedServiceType,
     problem_description |-> collectedInfo.problemDescription])

\* saveCollectedInfo: the fields one update writes.
saveCollectedInfo(st, r, collectedInfo) ==
  updateCallbackStatus(st, r,
    [address |-> collectedInfo.address,
     detailed_service_type |-> collectedInfo.detailedServiceType,
     problem_description |-> collectedInfo.problemDescription])

\* handleInfoCollection without the /cancel check ahead of the stages.
handleInfoCollectionStagesFirst(w, op, text, f) ==
  LET us == w.userStates[op]
      prompt(w1, t) == IF us.infoMessageId
                         THEN editInfoMessage(w1, op, t, f)
                         ELSE sendDirectMessage(w1, op, t, {}, f.dm)
  IN IF us.action = "collecting_address"
       THEN prompt([w EXCEPT !.userStates[op] =
                      [us EXCEPT !.address = Trim(text),
                                 !.action = "collecting_service_type"]],
                   "servicePrompt")
       ELSE sendDirectMessage([w EXCEPT !.userStates[op] = NoSession], op,
                              "collectCancelled", {}, f.dm)

\* handleInfoCollection with a saveCollectedInfo that swallows its error.
handleInfoCollectionSaveSwallows(w, op, text, f) ==
  LET us == w.userStates[op]
      r == us.callbackId
      prompt(w1, t) == IF us.infoMessageId
                         THEN editInfoMessage(w1, op, t, f)
                         ELSE sendDirectMessage(w1, op, t, {}, f.dm)
  IN IF text = "/cancel"
       THEN sendDirectMessage([w EXCEPT !.userStates[op] = NoSession], op,
                              "collectCancelled", {}, f.dm)
     ELSE CASE us.action = "collecting_address" ->
            prompt([w EXCEPT !.userStates[op] =
                      [us EXCEPT !.address = Trim(text),
                                 !.action = "collecting_service_type"]],
                   "servicePrompt")
       [] us.action = "collecting_service_type" ->
            prompt([w EXCEPT !.userStates[op] =
                      [us EXCEPT !.detailedServiceType = Trim(text),
                                 !.action = "collecting_problem"]],
                   "problemPrompt")
       [] us.action = "collecting_problem" ->
            LET pd == IF Trim(text) = "-" THEN "" ELSE Trim(text)
                info == [us EXCEPT !.problemDescription = pd]
                w1 == [w EXCEPT !.userStates[op] = info]
            IN IF ~(f.write /\ Found(w1.store, r))
                 THEN LET w3 == sendDetailedRequest(
                                  Log(w1, Ev("writeFail", r, None, "info")),
                                  op, r, f)
                      IN [w3 EXCEPT !.userStates[op] = NoSession]
                 ELSE LET w2 == [Log(w1, Ev("write", r, None, "info")) EXCEPT
                                   !.store = saveCollectedInfo(@, r, info)]
                          w3 == sendDetailedRequest(w2, op, r, f)
                      IN [w3 EXCEPT !.userStates[op] = NoSession]
       [] OTHER -> sendDirectMessage(w, op, "unknownState", {}, f.dm)

\* handleInfoCollection writing the address to the record as soon as it
\* is given.
handleInfoCollectionEager(w, op, text, f) ==
  LET us == w.userStates[op]
      r == us.callbackId
      prompt(w1, t) == IF us.infoMessageId
                         THEN editInfoMessage(w1, op, t, f)
                         ELSE sendDirectMessage(w1, op, t, {}, f.dm)
  IN IF text = "/cancel"
       THEN sendDirectMessage([w EXCEPT !.userStates[op] = NoSession], op,
                              "collectCancelled", {}, f.dm)
     ELSE CASE us.action = "collecting_address" ->
            prompt([w EXCEPT !.userStates[op] =
                      [us EXCEPT !.address = Trim(text),
                                 !.action = "collecting_service_type"],
                             !.store = updateCallbackStatus(@, r,
                                          [address |-> Trim(text)])],
                   "servicePrompt")
       [] us.action = "collecting_service_type" ->
            prompt([w EXCEPT !.userStates[op] =
                      [us EXCEPT !.detailedServiceType = Trim(text),
                                 !.action = "collecting_problem"]],
                   "problemPrompt")
       [] us.action = "collecting_problem" ->
            LET pd == IF Trim(text) = "-" THEN "" ELSE Trim(text)
                info == [us EXCEPT !.problemDescription = pd]
                w1 == [w EXCEPT !.userStates[op] = info]
            IN IF ~(f.write /\ Found(w1.store, r))
                 THEN sendDirectMessage(Log(w1, Ev("writeFail", r, None, "info")),
                                        op, "collectError", {}, f.dm)
                 ELSE LET w2 == [Log(w1, Ev("write", r, None, "info")) EXCEPT
                                   !.store = saveCollectedInfo(@, r, info)]
                          w3 == sendDetailedRequest(w2, op, r, f)
                      IN [w3 EXCEPT !.userStates[op] = NoSession]
       [] OTHER -> sendDirectMessage(w, op, "unknownState", {}, f.dm)

\* handleInfoCollection
handleInfoCollection(w, op, text, f) ==
  LET us == w.userStates[op]
      r == us.callbackId
      prompt(w1, t) == IF us.infoMessageId
                         THEN editInfoMessage(w1, op, t, f)
                         ELSE sendDirectMessage(w1, op, t, {}, f.dm)
  IN IF text = "/cancel"
       THEN sendDirectMessage([w EXCEPT !.userStates[op] = NoSession], op,
                              "collectCancelled", {}, f.dm)
     ELSE CASE us.action = "collecting_address" ->
            prompt([w EXCEPT !.userStates[op] =
                      [us EXCEPT !.address = Trim(text),
                                 !.action = "collecting_service_type"]],
                   "servicePrompt")
       [] us.action = "collecting_service_type" ->
            prompt([w EXCEPT !.userStates[op] =
                      [us EXCEPT !.detailedServiceType = Trim(text),
                                 !.action = "collecting_problem"]],
                   "problemPrompt")
       [] us.action = "collecting_problem" ->
            LET pd == IF Trim(text) = "-" THEN "" ELSE Trim(text)
                info == [us EXCEPT !.problemDescription = pd]
                w1 == [w EXCEPT !.userStates[op] = info]
            IN IF ~(f.write /\ Found(w1.store, r))
                 THEN sendDirectMessage(Log(w1, Ev("writeFail", r, None, "info")),
                                        op, "collectError", {}, f.dm)
                 ELSE LET w2 == [Log(w1, Ev("write", r, None, "info")) EXCEPT
                                   !.store = saveCollectedInfo(@, r, info)]
                          w3 == sendDetailedRequest(w2, op, r, f)
                      IN [w3 EXCEPT !.userStates[op] = NoSession]
       [] OTHER -> sendDirectMessage(w, op, "unknownState", {}, f.dm)

\* getUserSchedule: the operator's open records that have a reminder entry.
getUserSchedule(w, op) ==
  {r \in Records : /\ Found(w.store, r)
                   /\ w.store[r].assigned_user_id = op
                   /\ w.store[r].status \notin {"completed", "cancelled"}
                   /\ w.scheduledJobs[<<r, op>>] # NoJob}

\* getUserPendingClients: contacted, info collected, no reminder entry.
getUserPendingClients(w, op) ==
  {r \in Records : /\ Found(w.store, r)
                   /\ w.store[r].assigned_user_id = op
                   /\ w.store[r].status = "contacted"
                   /\ w.store[r].address # ""
                   /\ w.store[r].detailed_service_type # ""
                   /\ w.scheduledJobs[<<r, op>>] = NoJob}

\* handleDirectMessage: a text message of operator op at time t.
handleDirectMessage(w, op, text, fields, t, f) ==
  LET us == w.userStates[op]
      r == us.callbackId
      w0 == [w EXCEPT !.trace = <<Ev("msg", None, op, text)>>]
  IN IF us.action \in {"collecting_address", "collecting_service_type",
                       "collecting_problem"}
       THEN handleInfoCollection(w0, op, text, f)
     ELSE IF us.action = "scheduling"
       THEN IF text = "/cancel"
              THEN sendDirectMessage([w0 EXCEPT !.userStates[op] = NoSession],
                                     op, "scheduleCancelled", {}, f.dm)
            ELSE LET appointmentDate == parseDateTime(text, fields, t) IN
              IF appointmentDate = NoDate
                THEN sendDirectMessage(w0, op, "formatError", {}, f.dm)
              ELSE IF ~f.read1
                THEN sendDirectMessage(Log(w0, Ev("readFail", r, None, "")),
                                       op, "saveError", {}, f.dm)
              ELSE LET w1 == Log(w0, Ev("read", r, None, "")) IN
                IF Found(w1.store, r)
                  THEN LET w2 == scheduleReminder(w1, op, r, appointmentDate, t)
                           w3 == sendDirectMessage(w2, op, "confirmation",
                                     {<<op, "complete", r>>}, f.dm)
                           w4 == updateGroupMessage(w3, r, "scheduled", {}, f)
                       IN [w4 EXCEPT !.userStates[op] = NoSession]
                  ELSE [w1 EXCEPT !.userStates[op] = NoSession]
     ELSE IF text = "/schedule"
       THEN LET list == IF f.read1 THEN getUserSchedule(w0, op) ELSE {} IN
            IF list = {}
              THEN sendDirectMessage(w0, op, "noSchedule", {}, f.dm)
              ELSE sendDirectMessage(w0, op, "scheduleList",
                     {<<op, "complete", x>> : x \in list}, f.dm)
     ELSE IF text = "/pending"
       THEN LET list == IF f.read1 THEN getUserPendingClients(w0, op) ELSE {} IN
            IF list = {}
              THEN sendDirectMessage(w0, op, "noPending", {}, f.dm)
              ELSE sendDirectMessage(w0, op, "pendingList",
                     {<<op, "schedule_pending", x>> : x \in list}, f.dm)
     ELSE IF text = "/start"
       THEN sendDirectMessage(w0, op, "welcome", {}, f.dm)
     ELSE sendDirectMessage(w0, op, "generic", {}, f.dm)

\* notifyNewCallback up to its await: sendToWorkersGroup posts the "new
\* request" message with the buttons contacted and cancel; a failed send
\* is caught and gives null.
notifyNewCallbackSend(w, r, ok) ==
  LET w0 == [w EXCEPT !.trace = <<Ev("insert", r, None, "")>>,
                      !.hist[r].sends = @ + 1]
      m == Len(w.chan) + 1
  IN IF ok
       THEN [Log(w0, Ev("groupSend", r, m, "newCallback")) EXCEPT
               !.chan = Append(@, [rec |-> r,
                                   keyboard |-> {"contacted", "cancel"}]),
               !.sending = @ \cup {<<r, m>>}]
       ELSE Log(w0, Ev("groupSendFail", r, None, "newCallback"))

\* notifyNewCallback after its await: groupMessages.set.
notifyNewCallbackRecord(w, r, m) ==
  [w EXCEPT !.groupMessages[r] = m,
            !.hist[r].recorded = TRUE,
            !.sending = @ \ {<<r, m>>},
            !.trace = <<Ev("recorded", r, m, "")>>]

\* notifyCallbackCompleted: writes a line to the console and sends nothing.
notifyCallbackCompleted(w, r) == Log(w, Ev("console", r, None, "completed"))

\* handleCallbackUpdate: the UPDATE handler of the subscription, given the
\* row before and after the update.
handleCallbackUpdate(w, r, oldRecord, newRecord) ==
  IF oldRecord.status # "completed" /\ newRecord.status = "completed"
    THEN notifyCallbackCompleted(w, r)
    ELSE w

\* The setTimeout callback of scheduleReminder.
reminderFire(w, tm, ok) ==
  LET w0 == [w EXCEPT !.trace = <<Ev("fire", tm.callbackId, tm.timeoutId, "")>>]
      w1 == sendDirectMessage(w0, tm.userId, "reminder", {}, ok)
  IN [w1 EXCEPT !.scheduledJobs[<<tm.callbackId, tm.userId>>] = NoJob,
                !.timers = @ \ {tm}]

\* --------------------------------------------------- realtimeService.js

maxReconnectAttempts == 5

\* Bounds of the listener: pending reconnect timers, suspended calls, and
\* the consecutive timer-driven attempts that are counted.
MaxRtTimers == 2
MaxOps == 2
MaxStreak == 6
MaxLeaked == 1

\* What a live channel can be doing: joining (also after an error or a
\* timeout, when the client library rejoins), joined, or closed for good.
ChannelState(status) ==
  CASE status = "SUBSCRIBED" -> "SUBSCRIBED"
    [] status = "CLOSED" -> "CLOSED"
    [] OTHER -> "joining"

\* The listener's state, threaded through the statements of a callback;
\* notified counts the messages the callback sends to the operators.
RtWorld == [sub |-> realtimeSubscription, attempts |-> reconnectAttempts,
            isRec |-> isReconnecting, isDb |-> isDatabaseError,
            leaked |-> leaked, timers |-> rtTimers, ops |-> rtOps,
            hist |-> rtHist, notified |-> 0]

\* Pending timers: those armed since the last disconnectRealtime finished
\* (fresh) and those that were pending when one finished (stale).
NoTimers == [fresh |-> 0, stale |-> 0]

\* A call suspended at an await: who awaits (initializeRealtime, the
\* reconnect endpoint, the shutdown handler), what (removeChannel, the
\* database test), and whether the channel being removed is still the one
\* realtimeSubscription refers to.
\* "staleInit" is an initializeRealtime called by a timer that was pending
\* when a disconnectRealtime finished.
OpKinds == [who : {"init", "staleInit", "manual", "shutdown"},
            at : {"remove"}, current : BOOLEAN]
           \cup [who : {"init", "staleInit"}, at : {"test"},
                  current : {FALSE}]

\* History: consecutive timer-driven attempts without a success, and
\* whether a timer that was pending when a disconnectRealtime finished has
\* created a subscription.
NoRtHist == [streak |-> 0, staleSubscribed |-> FALSE]

Min(a, b) == IF a <= b THEN a ELSE b

\* The delay scheduleReconnection computes; customDelay 0 stands for null.
reconnectDelay(attempts, customDelay) ==
  IF customDelay # 0 THEN customDelay
  ELSE Min(1000 * 2 ^ attempts, 30000)

\* scheduleReconnection(customDelay): the timer is armed and its handle
\* dropped.
scheduleReconnection(w, customDelay) ==
  IF w.isRec THEN w
  ELSE IF w.attempts >= maxReconnectAttempts
    THEN [w EXCEPT !.isRec = FALSE]
    ELSE [w EXCEPT
            !.isRec = TRUE,
            !.attempts = @ + 1,
            !.timers.fresh = @ + 1]

\* handleRealtimeError, by what the error message contains.
handleRealtimeError(w, err) ==
  CASE err = "database" ->
         LET w1 == [w EXCEPT !.isDb = TRUE] IN
         IF ~w1.isRec THEN scheduleReconnection(w1, 30000) ELSE w1
    [] err = "permission" ->
         IF ~w.isRec THEN scheduleReconnection(w, 60000) ELSE w
    [] OTHER ->
         IF ~w.isRec THEN scheduleReconnection(w, 0) ELSE w

\* The status callback without its CLOSED branch.
statusCallbackIgnoresClosed(w, status, err) ==
  CASE status = "SUBSCRIBED" ->
         [w EXCEPT !.attempts = 0, !.isRec = FALSE, !.isDb = FALSE,
                   !.hist.streak = 0]
    [] status = "CHANNEL_ERROR" -> handleRealtimeError(w, err)
    [] status = "TIMED_OUT" -> scheduleReconnection(w, 0)
    [] status = "CLOSED" -> w

\* The status callback given to subscribe().
statusCallback(w, status, err) ==
  CASE status = "SUBSCRIBED" ->
         [w EXCEPT !.attempts = 0, !.isRec = FALSE, !.isDb = FALSE,
                   !.hist.streak = 0]
    [] status = "CHANNEL_ERROR" -> handleRealtimeError(w, err)
    [] status = "TIMED_OUT" -> scheduleReconnection(w, 0)
    [] status = "CLOSED" ->
         IF ~w.isRec THEN scheduleReconnection(w, 0) ELSE w

\* The INSERT and UPDATE callbacks, as far as the listener's state goes.
changeCallback(w) ==
  [w EXCEPT !.attempts = 0, !.isDb = FALSE, !.hist.streak = 0]

\* The change events of the table, and what the channel does with one:
\* callbacks are registered for INSERT and for UPDATE only.
ChangeKinds == {"INSERT", "UPDATE", "DELETE"}
eventCallback(w, event) ==
  IF event \in {"INSERT", "UPDATE"} THEN changeCallback(w) ELSE w

\* Suspending and resuming a call.
Suspend(w, o) == [w EXCEPT !.ops[o] = @ + 1]
Resume(w, o) == [w EXCEPT !.ops[o] = @ - 1]

\* When realtimeSubscription changes, the calls still awaiting
\* removeChannel hold a channel it no longer refers to.
Outdate(w) ==
  [w EXCEPT !.ops = [o \in OpKinds |->
      IF o.at = "remove" /\ o.current THEN 0
      ELSE IF o.at = "remove"
        THEN w.ops[o] + w.ops[[o EXCEPT !.current = TRUE]]
        ELSE w.ops[o]]]

\* initializeRealtime from the database test on: subscribe, or the catch
\* block when creating the channel throws. fromStale: the call was made by
\* a timer that was pending when a disconnectRealtime finished.
subscribe(w, throws, fromStale) ==
  IF throws
    THEN IF ~w.isRec THEN scheduleReconnection(w, 0) ELSE w
    ELSE [Outdate(w) EXCEPT
            !.sub = "joining",
            !.leaked = IF w.sub \notin {"null", "CLOSED"}
                         THEN @ \cup {w.sub} ELSE @,
            !.hist.staleSubscribed = @ \/ fromStale]

\* initializeRealtime after `await disconnectRealtime()`.
initializeTail(w, throws, fromStale) ==
  LET w1 == [w EXCEPT !.isRec = FALSE] IN
  IF w1.isDb
    THEN Suspend(w1, [who |-> IF fromStale THEN "staleInit" ELSE "init",
                      at |-> "test", current |-> FALSE])
    ELSE subscribe(w1, throws, fromStale)

\* initializeRealtime after the database test.
initializeTested(w, ok, throws, fromStale) ==
  IF ~ok
    THEN scheduleReconnection(w, 0)
    ELSE subscribe([w EXCEPT !.isDb = FALSE], throws, fromStale)

\* disconnectRealtime up to `await supabase.removeChannel`: with no
\* subscription it runs through and resets the flags.
disconnectHead(w, who) ==
  IF w.sub # "null"
    THEN Suspend(w, [who |-> who, at |-> "remove", current |-> TRUE])
    ELSE [w EXCEPT !.isRec = FALSE, !.attempts = 0,
                   !.timers = [fresh |-> 0, stale |-> @.stale + @.fresh]]

\* disconnectRealtime after removeChannel returned or threw: the reference
\* is dropped and the flags are reset; no timer is cancelled. closed: the
\* leaving channel reported CLOSED to its status callback first. A channel
\* whose removal threw stays live.
disconnectTail(w, o, closed, threw) ==
  LET w1 == IF closed /\ o.current
              THEN statusCallback(w, "CLOSED", "")
              ELSE w
      live == IF o.current THEN threw /\ w1.sub # "CLOSED"
              ELSE w1.sub \notin {"null", "CLOSED"}
      w2 == Outdate(Resume(w1, o))
  IN [w2 EXCEPT
        !.leaked = IF live THEN @ \cup {w1.sub} ELSE @,
        !.sub = "null",
        !.isRec = FALSE,
        !.attempts = 0,
        !.timers = [fresh |-> 0, stale |-> @.stale + @.fresh]]

\* initializeRealtime up to its first await.
initializeRealtime(w, throws, fromStale) ==
  IF w.sub # "null"
    THEN disconnectHead(w, IF fromStale THEN "staleInit" ELSE "init")
    ELSE initializeTail(w, throws, fromStale)

\* getRealtimeStatus; RECONNECTING stands for `RECONNECTING_<attempts>`.
getRealtimeStatus(w) ==
  IF w.sub = "null" THEN "NOT_INITIALIZED"
  ELSE IF w.isDb THEN "DATABASE_ERROR"
  ELSE IF w.isRec THEN "RECONNECTING"
  ELSE "ACTIVE"

\* The handler of POST /api/realtime/test.
realtimeTest(w) ==
  LET status == getRealtimeStatus(w)
  IN [healthy |-> (status = "ACTIVE"), status |-> status]

\* The handler of GET /health/ready, given the three flags: 200 when none
\* is missing, else 503 with the missing services in the order tested.
healthReady(supabase, realtime, telegram) ==
  LET flag == [supabase |-> supabase, realtime |-> realtime,
               telegram |-> telegram]
      missing == SelectSeq(<<"supabase", "realtime", "telegram">>,
                           LAMBDA d : ~flag[d])
  IN IF Len(missing) = 0
       THEN [status |-> 200, missing |-> <<>>]
       ELSE [status |-> 503, missing |-> missing]

\* ------------------------------------------------------------- actions

Apply(w) ==
  /\ store' = w.store
  /\ chan' = w.chan
  /\ sending' = w.sending
  /\ groupMessages' = w.groupMessages
  /\ userStates' = w.userStates
  /\ scheduledJobs' = w.scheduledJobs
  /\ timers' = w.timers
  /\ nextTimer' = w.nextTimer
  /\ dmButtons' = w.dmButtons
  /\ trace' = w.trace
  /\ hist' = w.hist

\* No function is called on its own.
NoCall == [text |-> "", fields |-> NoFields, done |-> FALSE, result |-> NoDate]

\* POST /api/realtime/test has not been requested.
NoTest == [healthy |-> FALSE, status |-> ""]

\* No readiness probe has been answered.
NoProbe == [status |-> 0, missing |-> <<>>]

\* The state after construction, apart from the clock and the startup,
\* when the operators who use the bot are ops.
ConstructedFor(ops) ==
  /\ store = [r \in Records |-> AbsentRow]
  /\ pendingInserts = [r \in Records |-> 0]
  /\ chan = <<>>
  /\ sending = {}
  /\ groupMessages = [r \in Records |-> None]
  /\ userStates = [op \in ops |-> NoSession]
  /\ scheduledJobs = [k \in Records \X ops |-> NoJob]
  /\ timers = {}
  /\ nextTimer = 1
  /\ dmButtons = {}
  /\ restarts = 0
  /\ restCalls = 0
  /\ faults = 0
  /\ trace = <<>>
  /\ hist = [r \in Records |-> [sends |-> 0, recorded |-> FALSE]]
  /\ reconnectAttempts = 0
  /\ isReconnecting = FALSE
  /\ isDatabaseError = FALSE
  /\ leaked = {}
  /\ rtTimers = NoTimers
  /\ rtOps = [o \in OpKinds |-> 0]
  /\ exited = FALSE
  /\ rtHist = NoRtHist
  /\ isSupabaseReady = FALSE
  /\ isRealtimeReady = FALSE
  /\ isTelegramReady = FALSE
  /\ probe = NoProbe
  /\ tested = NoTest

Constructed == ConstructedFor(Operators)

\* The background block of startServer has run and each of its three
\* steps succeeded: the channel of initializeRealtime is joining.
Started ==
  /\ realtimeSubscription = "joining"
  /\ startup = [pc |-> "done", supabaseConnected |-> TRUE,
                telegramConnected |-> TRUE, realtimeChannel |-> TRUE]

Init ==
  /\ Constructed
  /\ Started
  /\ now = 0
  /\ call = NoCall

\* POST /api/callbacks: the row is inserted and the changefeed delivers its
\* INSERT event n times (at least once).
CreateRecord(r, n) ==
  /\ store[r].status = "absent"
  /\ Apply([World EXCEPT !.store[r] = createCallbackRequest,
                         !.trace = <<Ev("rest", r, None, "create")>>])
  /\ pendingInserts' = [pendingInserts EXCEPT ![r] = n]
  /\ UNCHANGED <<now, restarts, restCalls, faults, rtVars, call, healthVars>>

\* The updateData of PATCH /api/callbacks/:id: status and completed_by of
\* the body, each when given ("" and None stand for a field left out).
patchData(s, by) ==
  (IF s # "" THEN [status |-> s] ELSE <<>>)
    @@ (IF by # None THEN [completed_by |-> by] ELSE <<>>)

\* PATCH /api/callbacks/:id with a valid status or none, and with or
\* without completed_by.
PatchStatus(r, s, by) ==
  /\ Found(store, r)
  /\ restCalls < MaxRest
  /\ restCalls' = restCalls + 1
  /\ Apply([World EXCEPT !.store = updateCallbackStatus(@, r, patchData(s, by)),
                         !.trace = <<Ev("rest", r, None, s)>>])
  /\ UNCHANGED <<pendingInserts, now, restarts, faults, rtVars, call, healthVars>>

\* DELETE /api/callbacks/:id
DeleteRecord(r) ==
  /\ Found(store, r)
  /\ restCalls < MaxRest
  /\ restCalls' = restCalls + 1
  /\ Apply([World EXCEPT !.store[r] = [AbsentRow EXCEPT !.status = "deleted"],
                         !.trace = <<Ev("rest", r, None, "delete")>>])
  /\ UNCHANGED <<pendingInserts, now, restarts, faults, rtVars, call, healthVars>>

\* The INSERT handler of the subscription: it resets the listener's
\* counters and runs notifyNewCallback.
InsertEvent(r, ok) ==
  /\ pendingInserts[r] > 0
  /\ Len(chan) < MaxMsgs
  /\ pendingInserts' = [pendingInserts EXCEPT ![r] = @ - 1]
  /\ Apply(notifyNewCallbackSend(World, r, ok))
  /\ faults' = faults + (IF ok THEN 0 ELSE 1)
  /\ reconnectAttempts' = 0
  /\ isDatabaseError' = FALSE
  /\ UNCHANGED <<now, restarts, restCalls, realtimeSubscription,
                 isReconnecting, leaked, rtTimers, rtOps, exited, rtHist,
                 call, healthVars>>

\* The send of notifyNewCallback returns.
InsertSent(r, m) ==
  /\ <<r, m>> \in sending
  /\ Apply(notifyNewCallbackRecord(World, r, m))
  /\ UNCHANGED <<pendingInserts, now, restarts, restCalls, faults, rtVars, call, healthVars>>

\* The buttons an operator can press.
Visible(op, verb, r) ==
  \/ \E m \in DOMAIN chan : chan[m].rec = r /\ verb \in chan[m].keyboard
  \/ <<op, verb, r>> \in dmButtons

Verbs == {"contacted", "cancel", "schedule", "schedule_pending", "complete"}

CallbackQuery(op, verb, r, f) ==
  /\ Visible(op, verb, r)
  /\ Apply(handleCallbackQuery(World, op, verb, r, f))
  /\ faults' = faults + Failed(f)
  /\ UNCHANGED <<pendingInserts, now, restarts, restCalls, rtVars, call, healthVars>>

\* The texts an operator sends, by the state of the conversation.
Texts(action) ==
  CASE action \in {"collecting_address", "collecting_service_type"} ->
         {"/cancel", " a "}
    [] action = "collecting_problem" -> {"/cancel", "a", "-"}
    [] action = "scheduling" -> {"/cancel", "a", "date"}
    [] OTHER -> {"/cancel", "/schedule", "/pending", "/start", "a"}

\* The instants a date-shaped text may denote at time t: past, too close
\* for a reminder, far enough for one.
Whens(t) == {t, t + ReminderLead, t + ReminderLead + Quarter}

\* What an operator types for instant i of January of EpochYear.
DateText(i) == [day |-> 1 + (i \div 1440), month |-> 1, year |-> EpochYear,
                hours |-> (i % 1440) \div 60, minutes |-> i % 60]

\* The captured groups of the texts an operator sends at time t.
Dates(text, t) ==
  IF text = "date" THEN {DateText(i) : i \in Whens(t)} ELSE {NoFields}

DirectMessage(op, text, fields, f) ==
  LET w == handleDirectMessage(World, op, text, fields, now, f) IN
  /\ w.nextTimer <= MaxTimers + 1
  /\ Apply(w)
  /\ faults' = faults + Failed(f)
  /\ UNCHANGED <<pendingInserts, now, restarts, restCalls, rtVars, call, healthVars>>

ReminderFire(tm, ok) ==
  /\ tm \in timers
  /\ now >= tm.fireAt
  /\ Apply(reminderFire(World, tm, ok))
  /\ faults' = faults + (IF ok THEN 0 ELSE 1)
  /\ UNCHANGED <<pendingInserts, now, restarts, restCalls, rtVars, call, healthVars>>

Tick ==
  /\ now < MaxTime * Quarter
  /\ now' = now + Quarter
  /\ UNCHANGED <<store, pendingInserts, chan, sending, groupMessages,
                 userStates, scheduledJobs, timers, nextTimer, dmButtons,
                 restarts, restCalls, faults, trace, hist, rtVars, call, healthVars>>

\* The process restarts: the module-level maps and timers are gone, the
\* store and the Telegram chats are not.
Restart ==
  /\ restarts < MaxRestarts
  /\ restarts' = restarts + 1
  /\ Apply([World EXCEPT !.sending = {},
                         !.groupMessages = [r \in Records |-> None],
                         !.userStates = [op \in Operators |-> NoSession],
                         !.scheduledJobs = [k \in Records \X Operators |-> NoJob],
                         !.timers = {},
                         !.trace = <<Ev("restart", None, None, "")>>])
  /\ pendingInserts' = [r \in Records |-> 0]
  /\ UNCHANGED <<now, restCalls, faults, rtVars, call, healthVars>>

\* ------------------------------------------------- actions of the listener

RtApply(w) ==
  /\ realtimeSubscription' = w.sub
  /\ reconnectAttempts' = w.attempts
  /\ isReconnecting' = w.isRec
  /\ isDatabaseError' = w.isDb
  /\ leaked' = w.leaked
  /\ rtTimers' = w.timers
  /\ rtOps' = w.ops
  /\ rtHist' = w.hist

RECURSIVE SumOps(_, _)
SumOps(ops, S) ==
  IF S = {} THEN 0
  ELSE LET o == CHOOSE x \in S : TRUE IN ops[o] + SumOps(ops, S \ {o})

Fits(w) ==
  /\ Cardinality(w.leaked) <= MaxLeaked
  /\ w.timers.fresh + w.timers.stale <= MaxRtTimers
  /\ SumOps(w.ops, OpKinds) <= MaxOps

StatusKinds == {"SUBSCRIBED", "CHANNEL_ERROR", "TIMED_OUT", "CLOSED"}
ErrKinds(status) ==
  IF status = "CHANNEL_ERROR" THEN {"database", "permission", "other"}
  ELSE {""}

\* The channel realtimeSubscription refers to reports a status.
ChannelStatus(status, err) ==
  /\ ~exited
  /\ realtimeSubscription \notin {"null", "CLOSED"}
  /\ LET w == statusCallback([RtWorld EXCEPT !.sub = ChannelState(status)],
                            status, err)
     IN Fits(w) /\ RtApply(w)
  /\ UNCHANGED <<botVars, exited, call, healthVars>>

\* A live channel nothing refers to reports a status.
LeakedStatus(c, status, err) ==
  /\ ~exited
  /\ c \in leaked
  /\ LET w == statusCallback(
                [RtWorld EXCEPT !.leaked =
                   (@ \ {c}) \cup ({ChannelState(status)} \ {"CLOSED"})],
                status, err)
     IN Fits(w) /\ RtApply(w)
  /\ UNCHANGED <<botVars, exited, call, healthVars>>

\* A row is inserted, updated or deleted while a channel is subscribed:
\* the part of the callbacks that touches the listener's state.
ChangeEvent(event) ==
  /\ ~exited
  /\ realtimeSubscription = "SUBSCRIBED" \/ "SUBSCRIBED" \in leaked
  /\ RtApply(eventCallback(RtWorld, event))
  /\ UNCHANGED <<botVars, exited, call, healthVars>>

\* A timer armed by scheduleReconnection fires.
ReconnectTimer(kind, throws) ==
  /\ ~exited
  /\ rtTimers[kind] > 0
  /\ rtHist.streak < MaxStreak
  /\ LET w == [RtWorld EXCEPT !.timers[kind] = @ - 1,
                              !.hist.streak = @ + 1]
         w1 == initializeRealtime(w, throws, kind = "stale")
     IN Fits(w1) /\ RtApply(w1)
  /\ UNCHANGED <<botVars, exited, call, healthVars>>

\* removeChannel returns or throws, and the awaiting call goes on.
RemoveDone(o, closed, threw, throws) ==
  /\ ~exited
  /\ o.at = "remove"
  /\ rtOps[o] > 0
  /\ LET w == disconnectTail(RtWorld, o, closed, threw)
         w1 == CASE o.who = "shutdown" -> w
                 [] o.who = "manual" -> initializeRealtime(w, throws, FALSE)
                 [] OTHER -> initializeTail(w, throws, o.who = "staleInit")
     IN /\ Fits(w1)
        /\ RtApply(w1)
        /\ exited' = (o.who = "shutdown")
  /\ UNCHANGED <<botVars, call, healthVars>>

\* The database test of initializeRealtime returns.
TestDone(o, ok, throws) ==
  /\ ~exited
  /\ o.at = "test"
  /\ rtOps[o] > 0
  /\ LET w == initializeTested(Resume(RtWorld, o), ok, throws,
                               o.who = "staleInit")
     IN Fits(w) /\ RtApply(w)
  /\ UNCHANGED <<botVars, exited, call, healthVars>>

\* POST /api/realtime/reconnect: disconnectRealtime, then
\* initializeRealtime.
ManualReconnect(throws) ==
  /\ ~exited
  /\ LET w == disconnectHead([RtWorld EXCEPT !.hist.streak = 0], "manual")
         w1 == IF RtWorld.sub # "null" THEN w
               ELSE initializeRealtime(w, throws, FALSE)
     IN Fits(w1) /\ RtApply(w1)
  /\ UNCHANGED <<botVars, exited, call, healthVars>>

\* gracefulShutdown: disconnectRealtime, then process.exit.
Shutdown ==
  /\ ~exited
  /\ LET w == disconnectHead(RtWorld, "shutdown")
     IN /\ Fits(w)
        /\ RtApply(w)
        /\ exited' = (RtWorld.sub = "null")
  /\ UNCHANGED <<botVars, call, healthVars>>

Reliable == [c \in Calls |-> TRUE]

\* The REST routes other than POST.
Rest ==
  \/ \E r \in Records, s \in Statuses \cup {""}, by \in Operators \cup {None} :
       PatchStatus(r, s, by)
  \/ \E r \in Records : DeleteRecord(r)

\* The bot over a reliable network: no Telegram or Supabase call fails;
\* the changefeed delivers each INSERT event once or more, and the process
\* may restart.
Next ==
  \/ \E r \in Records, n \in 1..MaxDeliver : CreateRecord(r, n)
  \/ \E r \in Records : InsertEvent(r, TRUE)
  \/ \E r \in Records, m \in 1..MaxMsgs : InsertSent(r, m)
  \/ \E op \in Operators, verb \in Verbs, r \in Records :
        CallbackQuery(op, verb, r, Reliable)
  \/ \E op \in Operators : \E text \in Texts(userStates[op].action) :
        \E fields \in Dates(text, now) :
           DirectMessage(op, text, fields, Reliable)
  \/ \E tm \in timers : ReminderFire(tm, TRUE)
  \/ Tick
  \/ Restart

Spec == Init /\ [][Next]_vars

\* The bot over a network whose calls may fail (at most MaxFailures in a
\* run); each INSERT event is delivered once.
NextFaulty ==
  \/ \E r \in Records : CreateRecord(r, 1)
  \/ \E r \in Records, ok \in Oks : InsertEvent(r, ok)
  \/ \E r \in Records, m \in 1..MaxMsgs : InsertSent(r, m)
  \/ \E op \in Operators, verb \in Verbs, r \in Records, f \in Failures :
        CallbackQuery(op, verb, r, f)
  \/ \E op \in Operators, f \in Failures :
      \E text \in Texts(userStates[op].action) :
        \E fields \in Dates(text, now) :
           DirectMessage(op, text, fields, f)
  \/ \E tm \in timers, ok \in Oks : ReminderFire(tm, ok)
  \/ Tick

SpecFaulty == Init /\ [][NextFaulty]_vars

\* The bot beside the REST routes PATCH and DELETE (reliable network).
NextRest ==
  \/ \E r \in Records : CreateRecord(r, 1)
  \/ \E r \in Records : InsertEvent(r, TRUE)
  \/ \E r \in Records, m \in 1..MaxMsgs : InsertSent(r, m)
  \/ \E op \in Operators, verb \in Verbs, r \in Records :
        CallbackQuery(op, verb, r, Reliable)
  \/ \E op \in Operators : \E text \in Texts(userStates[op].action) :
        \E fields \in Dates(text, now) :
           DirectMessage(op, text, fields, Reliable)
  \/ \E tm \in timers : ReminderFire(tm, TRUE)
  \/ Tick
  \/ Rest

SpecRest == Init /\ [][NextRest]_vars

NextListener ==
  \/ \E status \in StatusKinds : \E err \in ErrKinds(status) :
       ChannelStatus(status, err)
  \/ \E c \in leaked : \E status \in StatusKinds :
       \E err \in ErrKinds(status) : LeakedStatus(c, status, err)
  \/ \E event \in ChangeKinds : ChangeEvent(event)
  \/ \E kind \in {"fresh", "stale"} : \E throws \in BOOLEAN :
       ReconnectTimer(kind, throws)
  \/ \E o \in OpKinds : \E closed, threw, throws \in BOOLEAN :
       RemoveDone(o, closed, threw, throws)
  \/ \E o \in OpKinds : \E ok, throws \in BOOLEAN : TestDone(o, ok, throws)
  \/ \E throws \in BOOLEAN : ManualReconnect(throws)
  \/ Shutdown

SpecListener == Init /\ [][NextListener]_vars

\* Two operators of the workers group beside each other, from the
\* "new request" message to the end of info collection: the buttons of
\* the group message and the answers in the direct chats (reliable
\* network, each INSERT event delivered once, no restart).
MaxContenders == 2
Contenders == 1..MaxContenders

InitContenders ==
  /\ ConstructedFor(Contenders)
  /\ Started
  /\ now = 0
  /\ call = NoCall

NextContenders ==
  \/ \E r \in Records : CreateRecord(r, 1)
  \/ \E r \in Records : InsertEvent(r, TRUE)
  \/ \E r \in Records, m \in 1..MaxMsgs : InsertSent(r, m)
  \/ \E op \in Contenders, verb \in {"contacted", "cancel"}, r \in Records :
        CallbackQuery(op, verb, r, Reliable)
  \/ \E op \in Contenders : \E text \in Texts(userStates[op].action) :
        DirectMessage(op, text, NoFields, Reliable)

SpecContenders == InitContenders /\ [][NextContenders]_vars

\* parseDateTime on its own. The texts that match the pattern: two digits
\* each for day, month, hours and minutes, four for the year; the values
\* around the ends of the months and of the day.
ParseDays == {0, 1, 28, 29, 30, 31, 32}
ParseMonths == {0, 1, 2, 4, 12, 13}
ParseYears == {EpochYear - 1, EpochYear, EpochYear + 2}
ParseHours == {0, 10, 23, 24}
ParseMinutes == {0, 59, 60}
ParseFields ==
  [day : ParseDays, month : ParseMonths, year : ParseYears,
   hours : ParseHours, minutes : ParseMinutes]

\* The times of the call: the start of EpochYear and 28 February, 10:00.
ParseNows ==
  {0, DateOf([day |-> 28, month |-> 2, year |-> EpochYear,
              hours |-> 10, minutes |-> 0])}

InitParse ==
  /\ Constructed
  /\ Started
  /\ now \in ParseNows
  /\ \E text \in {"a", "date"} :
       \E fields \in (IF text = "date" THEN ParseFields ELSE {NoFields}) :
          call = [NoCall EXCEPT !.text = text, !.fields = fields]

\* parseDateTime(messageText) returns.
Parse ==
  /\ ~call.done
  /\ call' = [call EXCEPT !.done = TRUE,
                          !.result = parseDateTime(call.text, call.fields, now)]
  /\ UNCHANGED <<botVars, rtVars, healthVars>>

NextParse == Parse

SpecParse == InitParse /\ [][NextParse]_vars

\* scheduleReminder on its own. The appointments at time t: those whose
\* reminder time is before t, at t, after t, and at and beyond the longest
\* delay of a timer.
ArmDelays ==
  {0 - Quarter, 0, Quarter, TIMEOUT_MAX \div MsPerMinute,
   (TIMEOUT_MAX \div MsPerMinute) + 1}
ArmDates(t) == {t + ReminderLead + d : d \in ArmDelays}

\* scheduleReminder(userId, callbackId, appointmentDate, ...) is called
\* with the date that the fields denote.
Arm(op, r, fields) ==
  LET w0 == [World EXCEPT !.trace = <<Ev("arm", r, op, "")>>]
      w == scheduleReminder(w0, op, r, DateOf(fields), now)
  IN /\ w.nextTimer <= MaxTimers + 1
     /\ Apply(w)
     /\ call' = [text |-> "date", fields |-> fields, done |-> TRUE,
                 result |-> DateOf(fields)]
     /\ UNCHANGED <<pendingInserts, now, restarts, restCalls, faults, rtVars,
                     healthVars>>

NextArm ==
  \/ \E op \in Operators, r \in Records :
       \E fields \in {DateText(i) : i \in ArmDates(now)} : Arm(op, r, fields)
  \/ \E tm \in timers : ReminderFire(tm, TRUE)
  \/ Tick

SpecArm == Init /\ [][NextArm]_vars

\* The server from startServer on: the HTTP server listens, and the
\* background block has yet to test the connections and to initialize
\* the listener.
InitHealth ==
  /\ Constructed
  /\ realtimeSubscription = "null"
  /\ startup = [pc |-> "testSupabase", supabaseConnected |-> FALSE,
                telegramConnected |-> FALSE, realtimeChannel |-> FALSE]
  /\ now = 0
  /\ call = NoCall

\* `await testSupabaseConnection()` returns; the result is only logged.
TestSupabase(ok) ==
  /\ startup.pc = "testSupabase"
  /\ startup' = [startup EXCEPT !.pc = "testBot", !.supabaseConnected = ok]
  /\ UNCHANGED <<botVars, rtVars, call, isSupabaseReady, isRealtimeReady,
                 isTelegramReady, probe, tested>>

\* `await testBotConnection()` returns; the result is only logged.
TestBot(ok) ==
  /\ startup.pc = "testBot"
  /\ startup' = [startup EXCEPT !.pc = "initializeRealtime",
                                !.telegramConnected = ok]
  /\ UNCHANGED <<botVars, rtVars, call, isSupabaseReady, isRealtimeReady,
                 isTelegramReady, probe, tested>>

\* The two seconds have passed and `await initializeRealtime()` returns
\* the channel, or null when creating it threw; the result is only logged.
StartRealtime(throws) ==
  /\ startup.pc = "initializeRealtime"
  /\ ~exited
  /\ LET w == initializeRealtime(RtWorld, throws, FALSE)
     IN Fits(w) /\ RtApply(w)
  /\ startup' = [startup EXCEPT !.pc = "done", !.realtimeChannel = ~throws]
  /\ UNCHANGED <<botVars, exited, call, isSupabaseReady, isRealtimeReady,
                 isTelegramReady, probe, tested>>

\* GET /health/ready is answered from the three flags.
ReadyProbe ==
  /\ probe' = healthReady(isSupabaseReady, isRealtimeReady, isTelegramReady)
  /\ UNCHANGED <<botVars, rtVars, call, isSupabaseReady, isRealtimeReady,
                 isTelegramReady, startup, tested>>

\* POST /api/realtime/test is answered from the listener's variables.
RealtimeTest ==
  /\ tested' = realtimeTest(RtWorld)
  /\ UNCHANGED <<botVars, rtVars, call, isSupabaseReady, isRealtimeReady,
                 isTelegramReady, startup, probe>>

\* Startup beside the readiness probe and the statuses of the listener's
\* channel; the reconnection timers armed here stay pending.
NextHealth ==
  \/ \E ok \in BOOLEAN : TestSupabase(ok)
  \/ \E ok \in BOOLEAN : TestBot(ok)
  \/ \E throws \in BOOLEAN : StartRealtime(throws)
  \/ ReadyProbe
  \/ RealtimeTest
  \/ \E status \in StatusKinds : \E err \in ErrKinds(status) :
       ChannelStatus(status, err)

SpecHealth == InitHealth /\ [][NextHealth]_vars

\* ------------------------------------------------------------ properties

\* The "new request" messages of record r in the operators' group.
MessagesOf(r) == {m \in DOMAIN chan : chan[m].rec = r}

\* The handler that ran last was started by an event of kind k.
Ran(k) == trace # <<>> /\ trace[1].k = k

\* The positions of the last handler's trace with an event of a kind in K.
At(K) == {i \in DOMAIN trace : trace[i].k \in K}

\* C1: once a status action on a record has been announced by an edit of
\* its group message, the group holds exactly one "new request" message
\* of that record, and the edit went to that message.
C1_ExactlyOneMessage ==
  \A i \in At({"edit"}) :
     /\ Cardinality(MessagesOf(trace[i].r)) = 1
     /\ trace[i].m \in MessagesOf(trace[i].r)

\* C2: however often the INSERT event of a record is delivered, the group
\* holds at most one "new request" message of the record.
C2_NoDuplicateNewRequest ==
  \A r \in Records : Cardinality(MessagesOf(r)) <= 1

\* C3: no more than maxReconnectAttempts reconnect timers run
\* initializeRealtime in a row without a SUBSCRIBED status, a change event
\* or a manual reconnect in between.
C3_RetryBudget == rtHist.streak <= maxReconnectAttempts

\* C4: a reminder timer that fires for a record whose status is completed
\* or cancelled sends no reminder.
C4_ReminderSuppressed ==
  Ran("fire") /\ store[trace[1].r].status \in {"completed", "cancelled"}
    => \A i \in At({"dm"}) : trace[i].t # "reminder"

\* C5: at most one reminder timer is armed per (record, operator).
C5_OneTimerPerKey ==
  \A r \in Records, op \in Operators :
     Cardinality({tm \in timers : tm.callbackId = r /\ tm.userId = op}) <= 1

\* C6: in the handling of a button press the acknowledgement comes before
\* every store read or write and every message send or edit.
C6_AckBeforeIO ==
  Ran("cq") =>
    \A i \in At({"ack", "ackFail"}) :
       \A j \in 1..(i - 1) :
          trace[j].k \notin {"read", "readFail", "write", "writeFail",
                             "dm", "dmFail", "edit", "editFail"}

\* C7: no reconnect timer that was pending when a disconnectRealtime
\* finished creates a subscription.
C7_NoStaleReconnect == ~rtHist.staleSubscribed

\* C8: a status action handled while the "new request" send of its record
\* is in flight is not dropped for want of the message identity.
C8_UpdateDuringSend ==
  \A i \in At({"noGroupMessage"}) :
     \A m \in DOMAIN chan : <<trace[i].r, m>> \notin sending

\* C9: a status action on a record whose message identity was recorded
\* finds the identity, also after a restart.
C9_IdentitySurvivesRestart ==
  \A i \in At({"noGroupMessage"}) : ~hist[trace[i].r].recorded

\* C10: a failed edit of a record's group message is followed by the send
\* of a fresh message to the group.
C10_EditFallback ==
  \A i \in At({"editFail"}) :
     \E j \in At({"groupSend"}) : j > i /\ trace[j].r = trace[i].r

\* C11: when the store update of a contacted action fails, the operator
\* gets the failure acknowledgement, the record keeps its status, and the
\* operator is in no info-collection session.
C11_FailedContactedNoSession ==
  Ran("cq") /\ trace[1].t = "contacted"
    => \A i \in At({"writeFail"}) :
          /\ \E j \in At({"ack"}) : j > i /\ trace[j].t = "error"
          /\ store[trace[1].r].status # "contacted"
          /\ userStates[trace[1].m].action = "none"

\* C12: a /cancel sent in any stage of a session ends the session, sends
\* the cancellation message and touches neither record nor reminder; a
\* free text sent outside a session opens no session and changes no record.
C12_CancelOverride ==
  [][\A op \in Operators :
       /\ ( /\ userStates[op].action # "none"
            /\ trace' # <<>>
            /\ trace'[1] = Ev("msg", None, op, "/cancel") )
          => /\ userStates'[op] = NoSession
             /\ store' = store
             /\ timers' = timers
             /\ scheduledJobs' = scheduledJobs
             /\ Len(trace') = 2
             /\ trace'[2].k = "dm"
             /\ trace'[2].t = IF userStates[op].action = "scheduling"
                                THEN "scheduleCancelled"
                                ELSE "collectCancelled"
       /\ ( /\ userStates[op].action = "none"
            /\ trace' # <<>>
            /\ trace'[1] = Ev("msg", None, op, "a") )
          => /\ userStates'[op] = NoSession
             /\ store' = store
  ]_vars

\* C12 happens: an info-collection session of a contacted record was
\* cancelled and the operator is in no session.
C12_Witness ==
  /\ Len(trace) = 2
  /\ trace[1].k = "msg" /\ trace[1].t = "/cancel"
  /\ trace[2].k = "dm" /\ trace[2].t = "collectCancelled"
  /\ \A op \in Operators : userStates[op] = NoSession
  /\ \E r \in Records : store[r].status = "contacted"

\* The texts that parseDateTime rejects at the present time: one that does
\* not match the pattern, and well-formed ones for instants up to now.
Unparsable ==
  {<<"a", NoFields>>} \cup {<<"date", DateText(i)>> : i \in 0..now}

\* C13: in scheduling, a text that parseDateTime rejects is answered with
\* the format error and nothing else: the session stays in scheduling for
\* the same record, no reminder is armed and no record changes.
C13_ParseErrorStays ==
  \A op \in Operators :
    userStates[op].action = "scheduling" =>
      \A in \in Unparsable :
        LET w == handleDirectMessage(World, op, in[1], in[2], now, Reliable)
        IN /\ w.userStates = userStates
           /\ w.timers = timers
           /\ w.scheduledJobs = scheduledJobs
           /\ w.store = store
           /\ w.trace = <<Ev("msg", None, op, in[1]),
                          Ev("dm", None, op, "formatError")>>

\* C13 happens: a text was rejected and its sender is still scheduling.
C13_Witness ==
  /\ Len(trace) = 2
  /\ trace[1].k = "msg"
  /\ trace[2].t = "formatError"
  /\ userStates[trace[1].m].action = "scheduling"
  /\ userStates[trace[1].m].callbackId \in Records
  /\ timers = {}

\* C14: in scheduling, every text that parseDateTime accepts arms a
\* reminder for the record and the operator, sends the confirmation with
\* the complete button, edits the record's group message and ends the
\* session.
C14_AcceptedArmsReminder ==
  \A op \in Operators :
    userStates[op].action = "scheduling" =>
      \A fields \in Dates("date", now) :
        parseDateTime("date", fields, now) # NoDate =>
          LET r == userStates[op].callbackId
              w == handleDirectMessage(World, op, "date", fields, now, Reliable)
          IN /\ \E j \in w.timers : /\ j.callbackId = r
                                    /\ j.userId = op
                                    /\ j.appointmentDate = DateOf(fields)
             /\ \E i \in DOMAIN w.trace :
                   w.trace[i] = Ev("dm", None, op, "confirmation")
             /\ <<op, "complete", r>> \in w.dmButtons
             /\ \E i \in DOMAIN w.trace :
                   w.trace[i].k = "edit" /\ w.trace[i].r = r
             /\ w.userStates[op] = NoSession

\* The fields name a day of the calendar and a time of the day.
ValidFields(fields) ==
  /\ fields.month \in 1..12
  /\ fields.day \in 1..DaysInMonth(fields.year, fields.month)
  /\ fields.hours \in 0..23
  /\ fields.minutes \in 0..59

\* C15: parseDateTime accepts exactly the texts of the form DD.MM.YYYY
\* HH:MM that name a valid calendar date and time after now, and returns
\* that instant; every other text is rejected.
C15_ParserExact ==
  call.done =>
    LET accepted == /\ call.text = "date"
                    /\ ValidFields(call.fields)
                    /\ DateOf(call.fields) > now
    IN call.result = IF accepted THEN DateOf(call.fields) ELSE NoDate

\* C16: an armed reminder fires ReminderLead minutes before its
\* appointment, and an appointment whose reminder time is not after now
\* arms no timer and stores no entry.
C16_FiresAtLead ==
  /\ \A tm \in timers : tm.fireAt = tm.appointmentDate - ReminderLead
  /\ \A op \in Operators, r \in Records :
       \A T \in ArmDates(now) :
          T - ReminderLead <= now =>
            LET w == scheduleReminder(World, op, r, T, now)
            IN w.timers = timers /\ w.scheduledJobs = scheduledJobs

\* The statuses of a recoverable failure, each with its error.
Recoverable == {<<"CHANNEL_ERROR", "other">>, <<"TIMED_OUT", "">>, <<"CLOSED", "">>}

\* C17: when a recoverable failure follows n - 1 consecutive retries and
\* schedules the n-th, the delay of that retry is min(1000 * 2^n, 30000)
\* milliseconds.
C17_BackoffDelay ==
  ~exited /\ realtimeSubscription \notin {"null", "CLOSED"} =>
    \A x \in Recoverable :
      LET w == statusCallback([RtWorld EXCEPT !.sub = ChannelState(x[1])],
                              x[1], x[2])
      IN w.timers.fresh > rtTimers.fresh =>
           reconnectDelay(w.attempts, 0)
             = Min(1000 * 2 ^ (rtHist.streak + 1), 30000)

\* C18: once a cancel or a complete action on a record has been handled,
\* no reminder of that record is armed or stored, for any operator.
C18_NoReminderAfterClose ==
  Ran("cq") /\ trace[1].t \in {"cancel", "complete"} =>
    /\ \A tm \in timers : tm.callbackId # trace[1].r
    /\ \A op \in Operators : scheduledJobs[<<trace[1].r, op>>] = NoJob

\* C19: the actions that cancel the reminders of a record, handled twice
\* for a key, leave the reminders as handling them once does: no timer
\* armed and no entry stored for the key, whether it had a reminder or not.
C19_CancelIdempotent ==
  \A op \in Operators, r \in Records, verb \in {"cancel", "complete"} :
    Visible(op, verb, r) =>
      LET once == handleCallbackQuery(World, op, verb, r, Reliable)
          twice == handleCallbackQuery(once, op, verb, r, Reliable)
      IN /\ twice.timers = once.timers
         /\ twice.scheduledJobs = once.scheduledJobs
         /\ \A tm \in once.timers : ~(tm.callbackId = r /\ tm.userId = op)
         /\ once.scheduledJobs[<<r, op>>] = NoJob

\* C20: a contacted action on a record that is completed or cancelled
\* changes neither its status nor its assignment and starts no session.
C20_ContactedGuard ==
  \A op \in Operators, r \in Records :
    Visible(op, "contacted", r) /\ store[r].status \in {"completed", "cancelled"} =>
      LET w == handleCallbackQuery(World, op, "contacted", r, Reliable)
      IN /\ w.store[r].status = store[r].status
         /\ w.store[r].assigned_user_id = store[r].assigned_user_id
         /\ w.userStates[op] = userStates[op]

\* C21: a button press whose verb is none of those of the switch is
\* answered with the rejection and changes nothing else: no record, no
\* session, no reminder, no message of the group.
C21_UnknownVerbNoEffect ==
  \A op \in Operators, r \in Records :
    LET w == handleCallbackQuery(World, op, "details", r, Reliable)
    IN /\ \E i \in DOMAIN w.trace : w.trace[i] = Ev("ack", r, op, "unknown")
       /\ w.store = store
       /\ w.userStates = userStates
       /\ w.timers = timers
       /\ w.scheduledJobs = scheduledJobs
       /\ w.dmButtons = dmButtons
       /\ w.chan = chan

\* C22: a pending record has one "new request" message with the buttons
\* contacted and cancel; when an operator presses contacted the record
\* becomes contacted and assigned to that operator, that message is
\* edited and loses its buttons, and the operator is asked for the address
\* of the record.
C22_ContactedEndToEnd ==
  \A op \in Operators, r \in Records :
    store[r].status = "pending" /\ Visible(op, "contacted", r) =>
      LET w == handleCallbackQuery(World, op, "contacted", r, Reliable)
      IN /\ Cardinality(MessagesOf(r)) = 1
         /\ \A m \in MessagesOf(r) :
              /\ chan[m].keyboard = {"contacted", "cancel"}
              /\ w.chan[m].keyboard = {}
              /\ \E i \in DOMAIN w.trace :
                    w.trace[i].k = "edit" /\ w.trace[i].m = m
         /\ Len(w.chan) = Len(chan)
         /\ w.store[r].status = "contacted"
         /\ w.store[r].assigned_user_id = op
         /\ w.userStates[op].action = "collecting_address"
         /\ w.userStates[op].callbackId = r

OnStatus(status, err) ==
  statusCallback([RtWorld EXCEPT !.sub = ChannelState(status)], status, err)

\* A reconnect attempt is pending or running: a timer is armed, or a call
\* that goes on to subscribe is suspended.
Reconnecting(w) ==
  \/ w.timers.fresh + w.timers.stale > 0
  \/ \E o \in OpKinds : o.who # "shutdown" /\ w.ops[o] > 0

\* The listener is running and its channel can report a status.
Listening == ~exited /\ realtimeSubscription \notin {"null", "CLOSED"}

\* C24: a channel error that names the database or a permission sends an
\* error notification to the operators at once, and a reconnect attempt is
\* scheduled while the budget lasts.
C24_CriticalNotifies ==
  Listening =>
    \A err \in {"database", "permission"} :
      LET w == OnStatus("CHANNEL_ERROR", err)
      IN /\ w.notified > 0
         /\ reconnectAttempts < maxReconnectAttempts => Reconnecting(w)

\* C25: a channel error of no known kind sends no notification while the
\* attempt count is below 2 and one once it is 2 or more; a timeout does so
\* from 1; both schedule a retry while the budget lasts.
C25_RepeatedNotifies ==
  Listening =>
    \A x \in {<<"CHANNEL_ERROR", "other", 2>>, <<"TIMED_OUT", "", 1>>} :
      LET w == OnStatus(x[1], x[2])
      IN /\ w.attempts < x[3] => w.notified = 0
         /\ reconnectAttempts >= x[3] => w.notified > 0
         /\ reconnectAttempts < maxReconnectAttempts => Reconnecting(w)

\* C26: a CLOSED status sends no notification, and a reconnect attempt is
\* pending or running after it while the budget lasts.
C26_ClosedRetriesSilently ==
  Listening =>
    LET w == OnStatus("CLOSED", "")
    IN /\ w.notified = 0
       /\ reconnectAttempts < maxReconnectAttempts => Reconnecting(w)

\* C26 happens: after a retry the channel has reported CLOSED once more
\* and the next retry is armed.
C26_Witness ==
  /\ ~exited
  /\ realtimeSubscription = "CLOSED"
  /\ rtHist.streak >= 1
  /\ rtTimers.fresh > 0

\* The runs of a handler in which Telegram refuses to send or to edit a
\* message and every other call succeeds.
NotifyFailures ==
  {f \in [Calls -> BOOLEAN] :
     /\ f.read1 /\ f.write /\ f.ack /\ f.read2
     /\ ~(f.dm /\ f.edit)}

\* The acknowledgements a handler gave.
Acks(w) == {w.trace[i] : i \in {j \in DOMAIN w.trace : w.trace[j].k = "ack"}}

C28_NotFoundReply ==
  \A op \in Operators :
    /\ userStates[op].action = "scheduling"
    /\ ~Found(store, userStates[op].callbackId)
    => \A fields \in Dates("date", now) :
         parseDateTime("date", fields, now) # NoDate =>
           LET w == handleDirectMessage(World, op, "date", fields, now, Reliable)
           IN \E i \in DOMAIN w.trace :
                 w.trace[i] = Ev("dm", None, op, "notFound")

\* Between w0 and w the group got a new message, or a message of record r
\* was edited.
GroupNotified(w0, w, r) ==
  \/ Len(w.chan) > Len(w0.chan)
  \/ \E i \in DOMAIN w.trace : w.trace[i].k = "edit" /\ w.trace[i].r = r

\* C29: when a record that is not completed becomes completed, by a PATCH
\* request or by the complete button, the handlers that follow, the UPDATE
\* handler of the subscription included, send a message to the workers
\* group or edit the record's message.
C29_CompletionNotified ==
  \A r \in Records :
    Found(store, r) /\ store[r].status # "completed" =>
      /\ LET st == updateCallbackStatus(store, r, [status |-> "completed"])
             w0 == [World EXCEPT !.store = st,
                                 !.trace = <<Ev("rest", r, None, "completed")>>]
             w == handleCallbackUpdate(w0, r, store[r], st[r])
         IN GroupNotified(World, w, r)
      /\ \A op \in Operators :
           Visible(op, "complete", r) =>
             LET w0 == handleCallbackQuery(World, op, "complete", r, Reliable)
                 w == handleCallbackUpdate(w0, r, store[r], w0.store[r])
             IN GroupNotified(World, w, r)

\* The startup block has run and each of its three steps succeeded.
AllInitialized ==
  /\ startup.pc = "done"
  /\ startup.supabaseConnected
  /\ startup.telegramConnected
  /\ startup.realtimeChannel

\* C30: GET /health/ready answers 200 when the three flags are set and
\* 503 with the list of the unset ones otherwise, and once startup has
\* initialized Supabase, the listener and the bot successfully, it
\* answers 200.
C30_ReadyAfterStartup ==
  LET answer == healthReady(isSupabaseReady, isRealtimeReady,
                            isTelegramReady)
      unset == {d \in {"supabase", "realtime", "telegram"} :
                  \/ d = "supabase" /\ ~isSupabaseReady
                  \/ d = "realtime" /\ ~isRealtimeReady
                  \/ d = "telegram" /\ ~isTelegramReady}
  IN /\ answer.status = IF unset = {} THEN 200 ELSE 503
     /\ {answer.missing[i] : i \in DOMAIN answer.missing} = unset
     /\ probe # NoProbe => probe = answer
     /\ AllInitialized => answer.status = 200

\* The calls of initializeRealtime suspended at an await, counting the
\* reconnect endpoint's, which calls it after disconnectRealtime.
Initializing ==
  SumOps(rtOps, {o \in OpKinds : o.who \in {"init", "staleInit", "manual"}})

\* The live channels: the one realtimeSubscription refers to, unless it
\* has closed, and those nothing refers to.
LiveChannels ==
  Cardinality(leaked)
    + (IF realtimeSubscription \in {"null", "CLOSED"} THEN 0 ELSE 1)

\* C31: at most one initialization of the listener is in flight at a
\* time, and at most one live subscription delivers change events.
C31_SingleSubscribe ==
  /\ Initializing <= 1
  /\ LiveChannels <= 1

\* C32: whenever a subscribed channel has a change event of the table
\* (insert, update or delete), the reconnect attempt counter is zero
\* after it, whatever the counter was.
C32_EventResetsAttempts ==
  (realtimeSubscription = "SUBSCRIBED" \/ "SUBSCRIBED" \in leaked) =>
     \A event \in ChangeKinds : eventCallback(RtWorld, event).attempts = 0

\* A network on which only the update of the record fails.
WriteFails == [Reliable EXCEPT !.write = FALSE]

\* C33: when the update that saves the collected answers fails on the
\* third answer, the operator stays in collecting_problem for the same
\* record with the address and the service type given before, the
\* record is unchanged, no button schedule is shown, and the operator
\* gets the failure message.
C33_SaveFailureKeepsSession ==
  \A op \in Operators : \A text \in {"a", "-"} :
    LET us == userStates[op]
        w == handleDirectMessage(World, op, text, NoFields, now, WriteFails)
    IN us.action = "collecting_problem" =>
         /\ w.userStates[op].action = "collecting_problem"
         /\ w.userStates[op].callbackId = us.callbackId
         /\ w.userStates[op].address = us.address
         /\ w.userStates[op].detailedServiceType = us.detailedServiceType
         /\ w.store = store
         /\ w.dmButtons = dmButtons
         /\ w.chan = chan
         /\ \E i \in DOMAIN w.trace :
               w.trace[i] = Ev("dm", None, op, "collectError")
         /\ \A i \in DOMAIN w.trace : w.trace[i].t # "detailed"

\* C33 happens: the save of the third answer failed, the failure message
\* went out and the operator is still in collecting_problem.
C33_Witness ==
  /\ Ran("msg")
  /\ \E i \in DOMAIN trace : trace[i].k = "writeFail" /\ trace[i].t = "info"
  /\ \E i \in DOMAIN trace :
        trace[i] = Ev("dm", None, trace[1].m, "collectError")
  /\ userStates[trace[1].m].action = "collecting_problem"

\* C34: completed_at and completed_by of a record change only in an
\* update that makes the record completed: no step that leaves a record
\* with another status changes either field.
C34_CompletedFieldsOnlyOnCompletion ==
  [][\A r \in Records :
       (/\ Found(store, r)
        /\ Found(store', r)
        /\ \/ store'[r].completed_by # store[r].completed_by
           \/ store'[r].completed_at # store[r].completed_at)
       => store'[r].status = "completed"]_vars

\* C35: at most one timer of scheduleReconnection is pending at any time.
C35_OneReconnectTimer == rtTimers.fresh + rtTimers.stale <= 1

\* C36: when the channel realtimeSubscription refers to reports
\* SUBSCRIBED, no timer armed before that is left to tear it down: a
\* timer still pending then does not, when it fires, start removing the
\* subscribed channel.
C36_RecoveredNotTornDown ==
  Listening =>
    LET w == OnStatus("SUBSCRIBED", "") IN
    \A kind \in {"fresh", "stale"} : \A throws \in BOOLEAN :
      w.timers[kind] > 0 =>
        LET v == initializeRealtime([w EXCEPT !.timers[kind] = @ - 1],
                                    throws, kind = "stale")
        IN /\ v.sub = "SUBSCRIBED"
           /\ v.ops = w.ops

\* C37: scheduledJobs has an entry for a record and an operator exactly
\* when a timer of scheduleReminder for the two is armed and has not
\* fired.
C37_EntryIffTimerArmed ==
  \A r \in Records, op \in Operators :
    (scheduledJobs[<<r, op>>] # NoJob)
      <=> (\E tm \in timers : tm.callbackId = r /\ tm.userId = op)

\* The operators who hold an info-collection session for record r.
Collecting(r) ==
  {op \in DOMAIN userStates :
     /\ userStates[op].callbackId = r
     /\ userStates[op].action \in {"collecting_address",
                                    "collecting_service_type",
                                    "collecting_problem"}}

\* C38: an operator who holds an info-collection session for a record is
\* the one the record is assigned to, and no two operators hold sessions
\* for the same record at the same time.
C38_OneCollectorPerRecord ==
  \A r \in Records :
    /\ \A op \in Collecting(r) : store[r].assigned_user_id = op
    /\ Cardinality(Collecting(r)) <= 1

\* The fields of a record that info collection fills.
Collected(row) ==
  <<row.address, row.detailed_service_type, row.problem_description>>

\* C39: the collected fields of a record change only in the step that
\* takes the third answer of an operator collecting for it, and there
\* all three are written at once from the session and the answer, the
\* rest of the record staying as it was; every other step, a cancelled
\* or replaced session included, leaves the three fields alone.
C39_CollectedWrittenTogether ==
  [][\A r \in Records :
       (Found(store, r) /\ Found(store', r)
          /\ Collected(store'[r]) # Collected(store[r]))
       => \E op \in DOMAIN userStates : \E pd \in {"a", ""} :
            /\ userStates[op].action = "collecting_problem"
            /\ userStates[op].callbackId = r
            /\ userStates'[op] = NoSession
            /\ store'[r] = [store[r] EXCEPT
                  !.address = userStates[op].address,
                  !.detailed_service_type = userStates[op].detailedServiceType,
                  !.problem_description = pd]]_vars

\* C39 happens: the third answer of an operator has been taken and the
\* record holds the three fields, written by the one update of that step.
C39_Witness ==
  /\ Ran("msg")
  /\ Cardinality(At({"write"})) = 1
  /\ \E i \in At({"write"}) :
        /\ trace[i].t = "info"
        /\ Collected(store[trace[i].r]) \in {<<"a", "a", "a">>, <<"a", "a", "">>}
  /\ userStates[trace[1].m] = NoSession

\* C40: the listener is reported ACTIVE, and POST /api/realtime/test
\* answers healthy, only when the last status of the channel that
\* realtimeSubscription refers to is SUBSCRIBED.
C40_ActiveOnlySubscribed ==
  /\ getRealtimeStatus(RtWorld) = "ACTIVE" => realtimeSubscription = "SUBSCRIBED"
  /\ realtimeTest(RtWorld).healthy => realtimeSubscription = "SUBSCRIBED"

====
